---------------------------- MODULE Spec2Model ----------------------------
(***************************************************************************)
(* A model of the coroutine message bus of src/1/corobus.cpp: the channel  *)
(* table, the bounded message queues, the three kinds of waiter queue and  *)
(* the wake-up protocol, run by cooperatively scheduled coroutines.        *)
(*                                                                         *)
(* One action is what one coroutine does between two scheduling points     *)
(* (coro_suspend, coro_yield or the return of the call).  The coroutine    *)
(* runtime (libcoro) is not part of the sources, so which runnable         *)
(* coroutine runs next is a nondeterministic choice.                       *)
(***************************************************************************)
EXTENDS Integers, Sequences, FiniteSets, TLC

\* ------------------------------------------------------------------ bounds
NCoro == 3
MaxSlots == 2
MaxCap == 2
MaxVal == 2
MaxCount == 2
MaxCalls == 4
MaxLifeCalls == 5
MaxScript == 3
MaxSends == 4
MaxFlowCalls == 4

Coros == 1..NCoro
Data == 1..MaxVal
Caps == 0..MaxCap
\* -1 is a negative descriptor; MaxSlots - 1 is out of range until the table
\* has grown to MaxSlots slots
Descs == (-1)..(MaxSlots - 1)
Vecs == UNION {[1..k -> Data] : k \in 0..MaxCount}

VARIABLES
    channels,         \* bus->channels: the table, slot d is channels[d + 1]
    broadcast_queue,  \* bus->broadcast_queue
    global_error,     \* the process-wide last error
    bus_alive,        \* FALSE once coro_bus_delete has deleted the bus; no call is
                      \* made on a deleted bus
    pc,               \* where each coroutine is
    cur,              \* the call each coroutine is in
    before,           \* history: <<a, b>> when a waits in the same queue as b and was enqueued first
    closedOn,         \* history: the coroutine was woken by a channel_close and has not returned yet
    last,             \* history: what the last step did
    ncalls,           \* calls started so far (bounds the free-running specification)
    born,             \* coroutines 1..born have been created (coro_new)
    script,           \* the calls a scripted coroutine still has to make
    out,              \* the values a scripted coroutine received, in order
    rets,             \* the return values of a scripted coroutine's calls, in order
    overtaken         \* history: a send was attempted while an earlier one, woken, had not run yet

vars == <<channels, broadcast_queue, global_error, bus_alive, pc, cur,
          before,
          closedOn, last, ncalls, born, script, out, rets, overtaken>>

\* ------------------------------------------------------------- data model
\* A NULL pointer is the empty tuple, a pointer to an object the 1-tuple of it.
NULL == <<>>

NewChannel(size_limit) ==
    [size_limit |-> size_limit, send_queue |-> <<>>, recv_queue |-> <<>>,
     messages |-> <<>>]

NewBus == [channels |-> <<>>, broadcast_queue |-> <<>>]

Range(s) == {s[i] : i \in 1..Len(s)}

\* The result of a bus function: the bus and the error code after it, the
\* coroutines it called coro_wakeup on (in call order), its return value and
\* what it stored through its out pointer.
\* outcome: "return" (the function returned), "suspend" (it is inside
\* coro_suspend) or "yield" (it is inside coro_yield).
Res(chs, bq, err, woke, ret, data) ==
    [channels |-> chs, broadcast_queue |-> bq, global_error |-> err,
     woke |-> woke, ret |-> ret, data |-> data, outcome |-> "return"]

Unchanged(b, err, ret) ==
    Res(b.channels, b.broadcast_queue, err, <<>>, ret, <<>>)

coro_bus_errno_set(err) == err

\* ----------------------------------------------------------- waiter queues
wakeup_first_LIFO(q) ==
    IF q # <<>>
    THEN [queue |-> SubSeq(q, 1, Len(q) - 1), woke |-> <<q[Len(q)]>>, rc |-> 0]
    ELSE [queue |-> q, woke |-> <<>>, rc |-> 1]

\* A wake-one that leaves the woken handle in the queue.
wakeup_first_and_keep(q) ==
    IF q # <<>>
    THEN [queue |-> q, woke |-> <<Head(q)>>, rc |-> 0]
    ELSE [queue |-> q, woke |-> <<>>, rc |-> 1]

wakeup_first_and_remove_from(q) ==
    IF q # <<>>
    THEN [queue |-> Tail(q), woke |-> <<Head(q)>>, rc |-> 0]
    ELSE [queue |-> q, woke |-> <<>>, rc |-> 1]

RECURSIVE wakeup_coro_queue(_)
wakeup_coro_queue(q) ==
    IF q = <<>>
    THEN [queue |-> q, woke |-> <<>>]
    ELSE LET rest == wakeup_coro_queue(Tail(q))
         IN  [queue |-> rest.queue, woke |-> <<Head(q)>> \o rest.woke]

suspend_this_and_save_to_front(q, this) == <<this>> \o q

suspend_this_and_save_to(q, this) == Append(q, this)

\* ---------------------------------------------------------------- channels
have_free_space_off_by_one(chan) == Len(chan.messages) <= chan.size_limit

have_free_space(chan) == Len(chan.messages) < chan.size_limit

get_chanel_from(chs, channel) ==
    IF channel < 0 THEN NULL
    ELSE IF Len(chs) <= channel THEN NULL
    ELSE chs[channel + 1]

SetSlot(chs, channel, slot) == [chs EXCEPT ![channel + 1] = slot]

send_without_wakeup(chan, data) ==
    [chan |-> [chan EXCEPT !.messages = Append(@, data)], woke |-> <<>>]

\* A push that wakes every waiting receiver.
send_and_wakeup_all(chan, data) ==
    LET w == wakeup_coro_queue(chan.recv_queue)
    IN  [chan |-> [chan EXCEPT !.messages = Append(@, data),
                               !.recv_queue = w.queue],
         woke |-> w.woke]

send_and_wakeup_to(chan, data) ==
    LET w == wakeup_first_and_remove_from(chan.recv_queue)
    IN  [chan |-> [chan EXCEPT !.messages = Append(@, data),
                               !.recv_queue = w.queue],
         woke |-> w.woke]

\* A read that takes the newest message instead of the oldest.
read_newest_and_wakeup_from(bq, chan) ==
    LET ws == wakeup_first_and_remove_from(chan.send_queue)
        wb == IF ws.rc # 0
              THEN wakeup_first_and_remove_from(bq)
              ELSE [queue |-> bq, woke |-> <<>>, rc |-> 1]
    IN  [chan |-> [chan EXCEPT !.messages = SubSeq(@, 1, Len(@) - 1),
                               !.send_queue = ws.queue],
         bq |-> wb.queue,
         data |-> chan.messages[Len(chan.messages)],
         woke |-> ws.woke \o wb.woke]

\* A read that wakes nobody.
read_without_wakeup(bq, chan) ==
    [chan |-> [chan EXCEPT !.messages = Tail(@)],
     bq |-> bq,
     data |-> Head(chan.messages),
     woke |-> <<>>]

read_and_wakeup_from(bq, chan) ==
    LET ws == wakeup_first_and_remove_from(chan.send_queue)
        wb == IF ws.rc # 0
              THEN wakeup_first_and_remove_from(bq)
              ELSE [queue |-> bq, woke |-> <<>>, rc |-> 1]
    IN  [chan |-> [chan EXCEPT !.messages = Tail(@), !.send_queue = ws.queue],
         bq |-> wb.queue,
         data |-> Head(chan.messages),
         woke |-> ws.woke \o wb.woke]


\* ------------------------------------------------------------- open, close
RECURSIVE open_scan(_, _, _)
\* The loop of coro_bus_channel_open from index i on: every empty slot
\* overwrites chan_desc.
open_scan(chs, i, chan_desc) ==
    IF i < Len(chs)
    THEN open_scan(chs, i + 1, IF chs[i + 1] = NULL THEN i ELSE chan_desc)
    ELSE chan_desc

RECURSIVE open_scan_first(_, _, _)
open_scan_first(chs, i, chan_desc) ==
    IF i < Len(chs)
    THEN IF chs[i + 1] = NULL THEN i ELSE open_scan_first(chs, i + 1, chan_desc)
    ELSE chan_desc

open_at(b, size_limit, found) ==
    LET grown == IF found = -1 THEN Append(b.channels, NULL) ELSE b.channels
        chan_desc == IF found = -1 THEN Len(grown) - 1 ELSE found
    IN  Res(SetSlot(grown, chan_desc, <<NewChannel(size_limit)>>),
            b.broadcast_queue, b.global_error, <<>>, chan_desc, <<>>)

coro_bus_channel_open_lowest(b, size_limit) ==
    open_at(b, size_limit, open_scan_first(b.channels, 0, -1))

\* An open that appends a slot without looking for an empty one.
coro_bus_channel_open_always_grows(b, size_limit) ==
    open_at(b, size_limit, -1)

coro_bus_channel_open(b, size_limit) ==
    open_at(b, size_limit, open_scan(b.channels, 0, -1))

\* A close that wakes the broadcast waiters before it looks the channel up.
coro_bus_channel_close_wakes_broadcast(b, channel) ==
    LET slot == get_chanel_from(b.channels, channel)
        wb == wakeup_coro_queue(b.broadcast_queue)
    IN  IF slot = NULL
        THEN Res(b.channels, wb.queue, b.global_error, wb.woke, 0, <<>>)
        ELSE LET ws == wakeup_coro_queue(slot[1].send_queue)
                 wr == wakeup_coro_queue(slot[1].recv_queue)
             IN  [Res(SetSlot(b.channels, channel, NULL), wb.queue,
                      b.global_error, wb.woke \o ws.woke \o wr.woke, 0, <<>>)
                  EXCEPT !.outcome = "yield"]

coro_bus_channel_close(b, channel) ==
    LET slot == get_chanel_from(b.channels, channel)
    IN  IF slot = NULL
        THEN Unchanged(b, b.global_error, 0)
        ELSE LET ws == wakeup_coro_queue(slot[1].send_queue)
                 wr == wakeup_coro_queue(slot[1].recv_queue)
             IN  [Res(SetSlot(b.channels, channel, NULL), b.broadcast_queue,
                      b.global_error, ws.woke \o wr.woke, 0, <<>>)
                  EXCEPT !.outcome = "yield"]

RECURSIVE delete_scan(_, _)
\* The loop of coro_bus_delete from index i on, up to the first occupied
\* slot; -1 when the loop ends.
delete_scan(chs, i) ==
    IF i < Len(chs)
    THEN IF chs[i + 1] # NULL THEN i ELSE delete_scan(chs, i + 1)
    ELSE -1

\* coro_bus_delete from loop index i to its next scheduling point: inside the
\* coro_yield of the close of slot ret, or (outcome "deleted") after delete bus.
coro_bus_delete(b, i) ==
    LET j == delete_scan(b.channels, i)
    IN  IF j = -1
        THEN [Unchanged(b, b.global_error, 0) EXCEPT !.outcome = "deleted"]
        ELSE [coro_bus_channel_close(b, j) EXCEPT !.ret = j]

\* ---------------------------------------------------------------- try-forms
coro_bus_try_send(b, channel, data) ==
    LET slot == get_chanel_from(b.channels, channel)
    IN  IF slot = NULL
        THEN Unchanged(b, coro_bus_errno_set("NO_CHANNEL"), -1)
        ELSE IF ~have_free_space(slot[1])
        THEN Unchanged(b, coro_bus_errno_set("WOULD_BLOCK"), -1)
        ELSE LET s == send_and_wakeup_to(slot[1], data)
             IN  Res(SetSlot(b.channels, channel, <<s.chan>>), b.broadcast_queue,
                     b.global_error, s.woke, 0, <<>>)

coro_bus_try_recv(b, channel) ==
    LET slot == get_chanel_from(b.channels, channel)
    IN  IF slot = NULL
        THEN Unchanged(b, coro_bus_errno_set("NO_CHANNEL"), -1)
        ELSE IF slot[1].messages = <<>>
        THEN Unchanged(b, coro_bus_errno_set("WOULD_BLOCK"), -1)
        ELSE LET r == read_and_wakeup_from(b.broadcast_queue, slot[1])
             IN  Res(SetSlot(b.channels, channel, <<r.chan>>), r.bq,
                     b.global_error, r.woke, 0, <<r.data>>)

\* The occupied slots of the table, in index order (alive_chans).
alive_chans(chs) == SelectSeq([i \in 1..Len(chs) |-> i - 1],
                              LAMBDA d : chs[d + 1] # NULL)

RECURSIVE broadcast_push(_, _, _, _)
\* The second loop of coro_bus_try_broadcast: send_and_wakeup_to on each of
\* alive[k..], in order.
broadcast_push(chs, alive, k, data) ==
    IF k > Len(alive)
    THEN [channels |-> chs, woke |-> <<>>]
    ELSE LET s == send_and_wakeup_to(chs[alive[k] + 1][1], data)
             rest == broadcast_push(SetSlot(chs, alive[k], <<s.chan>>),
                                    alive, k + 1, data)
         IN  [channels |-> rest.channels, woke |-> s.woke \o rest.woke]

RECURSIVE broadcast_push_greedy(_, _, _, _)
broadcast_push_greedy(chs, alive, k, data) ==
    IF k > Len(alive) \/ ~have_free_space(chs[alive[k] + 1][1])
    THEN [channels |-> chs, woke |-> <<>>, full |-> k <= Len(alive)]
    ELSE LET s == send_and_wakeup_to(chs[alive[k] + 1][1], data)
             rest == broadcast_push_greedy(SetSlot(chs, alive[k], <<s.chan>>),
                                           alive, k + 1, data)
         IN  [channels |-> rest.channels, woke |-> s.woke \o rest.woke,
              full |-> rest.full]

\* A try_broadcast that checks and pushes in a single pass.
coro_bus_try_broadcast_one_pass(b, data) ==
    LET alive == alive_chans(b.channels)
        p == broadcast_push_greedy(b.channels, alive, 1, data)
    IN  IF p.full
        THEN Res(p.channels, b.broadcast_queue, coro_bus_errno_set("WOULD_BLOCK"),
                 p.woke, -1, <<>>)
        ELSE IF alive = <<>>
        THEN Unchanged(b, coro_bus_errno_set("NO_CHANNEL"), -1)
        ELSE Res(p.channels, b.broadcast_queue, b.global_error, p.woke, 0, <<>>)

coro_bus_try_broadcast(b, data) ==
    LET alive == alive_chans(b.channels)
    IN  IF \E k \in 1..Len(alive) : ~have_free_space(b.channels[alive[k] + 1][1])
        THEN Unchanged(b, coro_bus_errno_set("WOULD_BLOCK"), -1)
        ELSE IF alive = <<>>
        THEN Unchanged(b, coro_bus_errno_set("NO_CHANNEL"), -1)
        ELSE LET p == broadcast_push(b.channels, alive, 1, data)
             IN  Res(p.channels, b.broadcast_queue, b.global_error, p.woke, 0, <<>>)

RECURSIVE send_v_loop(_, _, _, _)
\* while (have_free_space(chan) && i < count) send_and_wakeup_to(chan, data[i++]);
send_v_loop(chan, data, count, i) ==
    IF have_free_space(chan) /\ i < count
    THEN LET s == send_and_wakeup_to(chan, data[i + 1])
             rest == send_v_loop(s.chan, data, count, i + 1)
         IN  [chan |-> rest.chan, woke |-> s.woke \o rest.woke, i |-> rest.i]
    ELSE [chan |-> chan, woke |-> <<>>, i |-> i]

\* A try_send_v that pushes only when all count values fit.
coro_bus_try_send_v_all_or_nothing(b, channel, data, count) ==
    LET slot == get_chanel_from(b.channels, channel)
    IN  IF slot = NULL
        THEN Unchanged(b, coro_bus_errno_set("NO_CHANNEL"), -1)
        ELSE LET l == send_v_loop(slot[1], data, count, 0)
             IN  IF l.i < count \/ l.i = 0
                 THEN Unchanged(b, coro_bus_errno_set("WOULD_BLOCK"), -1)
                 ELSE Res(SetSlot(b.channels, channel, <<l.chan>>),
                          b.broadcast_queue, b.global_error, l.woke, l.i, <<>>)

coro_bus_try_send_v(b, channel, data, count) ==
    LET slot == get_chanel_from(b.channels, channel)
    IN  IF slot = NULL
        THEN Unchanged(b, coro_bus_errno_set("NO_CHANNEL"), -1)
        ELSE LET l == send_v_loop(slot[1], data, count, 0)
             IN  IF l.i = 0
                 THEN Unchanged(b, coro_bus_errno_set("WOULD_BLOCK"), -1)
                 ELSE Res(SetSlot(b.channels, channel, <<l.chan>>),
                          b.broadcast_queue, b.global_error, l.woke, l.i, <<>>)

RECURSIVE recv_v_loop(_, _, _, _)
\* while (!chan->messages.empty() && i < capacity) read_and_wakeup_from(bus, chan, &data[i++]);
recv_v_loop(bq, chan, capacity, i) ==
    IF chan.messages # <<>> /\ i < capacity
    THEN LET r == read_and_wakeup_from(bq, chan)
             rest == recv_v_loop(r.bq, r.chan, capacity, i + 1)
         IN  [chan |-> rest.chan, bq |-> rest.bq, data |-> <<r.data>> \o rest.data,
              woke |-> r.woke \o rest.woke, i |-> rest.i]
    ELSE [chan |-> chan, bq |-> bq, data |-> <<>>, woke |-> <<>>, i |-> i]

coro_bus_try_recv_v(b, channel, capacity) ==
    LET slot == get_chanel_from(b.channels, channel)
    IN  IF slot = NULL
        THEN Unchanged(b, coro_bus_errno_set("NO_CHANNEL"), -1)
        ELSE LET l == recv_v_loop(b.broadcast_queue, slot[1], capacity, 0)
             IN  IF l.i = 0
                 THEN Unchanged(b, coro_bus_errno_set("WOULD_BLOCK"), -1)
                 ELSE Res(SetSlot(b.channels, channel, <<l.chan>>), l.bq,
                          b.global_error, l.woke, l.i, l.data)

\* ----------------------------------------------------------- blocking forms
\* One pass of the for (;;) loop of a blocking form, run by coroutine `this`:
\* it ends with the function returning or with `this` inside coro_suspend.
SuspendIn(t, channel, field, this) ==
    LET chan == get_chanel_from(t.channels, channel)[1]
    IN  [t EXCEPT !.channels = SetSlot(@, channel,
                      <<[chan EXCEPT ![field] = suspend_this_and_save_to(@, this)]>>),
                  !.outcome = "suspend"]

coro_bus_send_no_suspend(b, this, channel, data) ==
    LET t == coro_bus_try_send(b, channel, data)
    IN  IF t.ret = 0 THEN t ELSE [t EXCEPT !.ret = -1]

coro_bus_send(b, this, channel, data) ==
    LET t == coro_bus_try_send(b, channel, data)
        err == t.global_error
    IN  IF t.ret = 0 THEN [t EXCEPT !.ret = 0]
        ELSE IF err = "NO_CHANNEL" THEN [t EXCEPT !.ret = -1]
        ELSE IF err = "WOULD_BLOCK" THEN SuspendIn(t, channel, "send_queue", this)
        ELSE [t EXCEPT !.global_error = coro_bus_errno_set("NOT_IMPLEMENTED"),
                       !.ret = -1]

coro_bus_recv(b, this, channel) ==
    LET t == coro_bus_try_recv(b, channel)
        err == t.global_error
    IN  IF t.ret = 0 THEN [t EXCEPT !.ret = 0]
        ELSE IF err = "NO_CHANNEL" THEN [t EXCEPT !.ret = -1]
        ELSE IF err = "WOULD_BLOCK" THEN SuspendIn(t, channel, "recv_queue", this)
        ELSE [t EXCEPT !.global_error = coro_bus_errno_set("NOT_IMPLEMENTED"),
                       !.ret = -1]

\* A broadcast whose failed attempts leave the value in the channels they
\* reached before the full one.
coro_bus_broadcast_partial(b, this, data) ==
    LET t == coro_bus_try_broadcast_one_pass(b, data)
        err == t.global_error
    IN  IF t.ret = 0 THEN [t EXCEPT !.ret = 0]
        ELSE IF err = "NO_CHANNEL" THEN [t EXCEPT !.ret = -1]
        ELSE [t EXCEPT !.woke = <<>>,
                       !.broadcast_queue = suspend_this_and_save_to(@, this),
                       !.outcome = "suspend"]

coro_bus_broadcast(b, this, data) ==
    LET t == coro_bus_try_broadcast(b, data)
        err == t.global_error
    IN  IF t.ret = 0 THEN [t EXCEPT !.ret = 0]
        ELSE IF err = "NO_CHANNEL" THEN [t EXCEPT !.ret = -1]
        ELSE IF err = "WOULD_BLOCK"
        THEN [t EXCEPT !.broadcast_queue = suspend_this_and_save_to(@, this),
                       !.outcome = "suspend"]
        ELSE [t EXCEPT !.global_error = coro_bus_errno_set("NOT_IMPLEMENTED"),
                       !.ret = -1]

coro_bus_send_v(b, this, channel, data, count) ==
    LET t == coro_bus_try_send_v(b, channel, data, count)
        err == t.global_error
    IN  IF t.ret > 0 THEN t
        ELSE IF err = "NO_CHANNEL" THEN [t EXCEPT !.ret = -1]
        ELSE IF err = "WOULD_BLOCK" THEN SuspendIn(t, channel, "send_queue", this)
        ELSE [t EXCEPT !.global_error = coro_bus_errno_set("NOT_IMPLEMENTED"),
                       !.ret = -1]

coro_bus_recv_v(b, this, channel, capacity) ==
    LET t == coro_bus_try_recv_v(b, channel, capacity)
        err == t.global_error
    IN  IF t.ret > 0 THEN t
        ELSE IF err = "NO_CHANNEL" THEN [t EXCEPT !.ret = -1]
        ELSE IF err = "WOULD_BLOCK" THEN SuspendIn(t, channel, "recv_queue", this)
        ELSE [t EXCEPT !.global_error = coro_bus_errno_set("NOT_IMPLEMENTED"),
                       !.ret = -1]

\* ------------------------------------------------------------------- calls
\* A call: kind, descriptor d, the values data, and n (size_limit of open,
\* count of send_v, capacity of recv_v, loop index of delete).
Op(kind, d, data, n) == [kind |-> kind, d |-> d, data |-> data, n |-> n]

NoOp == Op("none", 0, <<>>, 0)

TryKinds == {"try_send", "try_recv", "try_broadcast", "try_send_v", "try_recv_v"}
BlockingKinds == {"send", "recv", "broadcast", "send_v", "recv_v"}

Ops ==
    {Op("open", 0, <<>>, n) : n \in Caps}
    \cup {Op("close", d, <<>>, 0) : d \in Descs}
    \cup {Op(k, d, <<v>>, 1) : k \in {"try_send", "send"}, d \in Descs, v \in Data}
    \cup {Op(k, d, <<>>, 0) : k \in {"try_recv", "recv"}, d \in Descs}
    \cup {Op(k, 0, <<v>>, 1) : k \in {"try_broadcast", "broadcast"}, v \in Data}
    \cup {Op(k, d, vec, Len(vec)) : k \in {"try_send_v", "send_v"}, d \in Descs, vec \in Vecs}
    \cup {Op(k, d, <<>>, n) : k \in {"try_recv_v", "recv_v"}, d \in Descs, n \in 0..MaxCount}

Bus == [channels |-> channels, broadcast_queue |-> broadcast_queue,
        global_error |-> global_error]

\* What coroutine c's call op does from its entry, or from the return of
\* coro_suspend, to its next scheduling point.
Exec(b, c, op) ==
    CASE op.kind = "open"          -> coro_bus_channel_open(b, op.n)
      [] op.kind = "close"         -> coro_bus_channel_close(b, op.d)
      [] op.kind = "try_send"      -> coro_bus_try_send(b, op.d, op.data[1])
      [] op.kind = "send"          -> coro_bus_send(b, c, op.d, op.data[1])
      [] op.kind = "try_recv"      -> coro_bus_try_recv(b, op.d)
      [] op.kind = "recv"          -> coro_bus_recv(b, c, op.d)
      [] op.kind = "try_broadcast" -> coro_bus_try_broadcast(b, op.data[1])
      [] op.kind = "broadcast"     -> coro_bus_broadcast(b, c, op.data[1])
      [] op.kind = "try_send_v"    -> coro_bus_try_send_v(b, op.d, op.data, op.n)
      [] op.kind = "send_v"        -> coro_bus_send_v(b, c, op.d, op.data, op.n)
      [] op.kind = "try_recv_v"    -> coro_bus_try_recv_v(b, op.d, op.n)
      [] op.kind = "recv_v"        -> coro_bus_recv_v(b, c, op.d, op.n)
      [] op.kind = "delete"        -> coro_bus_delete(b, op.n)

\* The waiter queue coroutine c has just been appended to by its blocking call.
JoinedQueue(r, op) ==
    IF op.kind = "broadcast" THEN r.broadcast_queue
    ELSE IF op.kind \in {"send", "send_v"}
    THEN get_chanel_from(r.channels, op.d)[1].send_queue
    ELSE get_chanel_from(r.channels, op.d)[1].recv_queue

\* coro_wakeup on each of woke: a suspended coroutine becomes runnable.
coro_wakeup(p, woke) ==
    [x \in Coros |-> IF x \in Range(woke) /\ p[x] = "suspended"
                     THEN "woken" ELSE p[x]]

\* The step of coroutine c, in call op, whose effect on the bus is r.
Apply(c, op, r, retry) ==
    /\ channels' = r.channels
    /\ broadcast_queue' = r.broadcast_queue
    /\ global_error' = r.global_error
    /\ pc' = [coro_wakeup(pc, r.woke) EXCEPT ![c] =
                 CASE r.outcome = "return"  -> "ready"
                   [] r.outcome = "suspend" -> "suspended"
                   [] r.outcome = "yield"   -> "yield"
                   [] r.outcome = "deleted" -> "ready"]
    /\ cur' = [cur EXCEPT ![c] =
                  IF r.outcome \in {"return", "deleted"} THEN NoOp
                  ELSE IF op.kind = "delete" THEN Op("delete", 0, <<>>, r.ret + 1)
                  ELSE op]
    /\ bus_alive' = (r.outcome # "deleted")
    /\ before' = {p \in before : p[1] \notin Range(r.woke) /\ p[2] \notin Range(r.woke)}
                 \cup (IF r.outcome = "suspend"
                       THEN {<<a, c>> : a \in Range(JoinedQueue(r, op)) \ {c}}
                       ELSE {})
    /\ closedOn' = [x \in Coros |->
                       IF x = c THEN r.outcome \in {"suspend", "yield"} /\ closedOn[c]
                       ELSE closedOn[x] \/ (op.kind \in {"close", "delete"}
                                            /\ x \in Range(r.woke))]
    /\ last' = [coro |-> c, op |-> op, ret |-> r.ret, data |-> r.data,
                woke |-> r.woke, outcome |-> r.outcome, retry |-> retry,
                closed |-> closedOn[c]]

\* Coroutine c, not inside a bus call, calls op.
Start(c, op) ==
    /\ bus_alive
    /\ pc[c] = "ready"
    /\ op.kind = "open" =>
           (Len(channels) < MaxSlots \/ \E i \in 1..Len(channels) : channels[i] = NULL)
    /\ Apply(c, op, Exec(Bus, c, op), FALSE)

\* Coroutine c, woken inside a blocking form, returns from coro_suspend and
\* goes round the loop again.
Retry(c) ==
    /\ bus_alive
    /\ pc[c] = "woken"
    /\ Apply(c, cur[c], Exec(Bus, c, cur[c]), TRUE)

\* Coroutine c returns from the coro_yield of the coro_bus_channel_close that
\* coro_bus_delete called, and goes on with the loop of coro_bus_delete.
ResumeDelete(c) ==
    /\ bus_alive
    /\ pc[c] = "yield"
    /\ cur[c].kind = "delete"
    /\ Apply(c, cur[c], Exec(Bus, c, cur[c]), TRUE)

\* Coroutine c returns from the coro_yield of coro_bus_channel_close.
Resume(c) ==
    /\ bus_alive
    /\ pc[c] = "yield"
    /\ cur[c].kind = "close"
    /\ pc' = [pc EXCEPT ![c] = "ready"]
    /\ cur' = [cur EXCEPT ![c] = NoOp]
    /\ closedOn' = [closedOn EXCEPT ![c] = FALSE]
    /\ last' = [coro |-> c, op |-> cur[c], ret |-> 0, data |-> <<>>,
                woke |-> <<>>, outcome |-> "return", retry |-> TRUE,
                closed |-> closedOn[c]]
    /\ UNCHANGED <<channels, broadcast_queue, global_error, before, bus_alive>>

\* --------------------------------------------------------- specifications
NoLast == [coro |-> 0, op |-> NoOp, ret |-> 0, data |-> <<>>, woke |-> <<>>,
           outcome |-> "return", retry |-> FALSE, closed |-> FALSE]

InitCoros ==
    /\ pc = [c \in Coros |-> "ready"]
    /\ cur = [c \in Coros |-> NoOp]
    /\ before = {}
    /\ closedOn = [c \in Coros |-> FALSE]
    /\ last = NoLast
    /\ ncalls = 0
    /\ out = [c \in Coros |-> <<>>]
    /\ rets = [c \in Coros |-> <<>>]
    /\ overtaken = FALSE

\* The state after coro_bus_new(); coroutines are then created one after the
\* other, each with its first call, and make any calls.
Init ==
    /\ channels = NewBus.channels
    /\ broadcast_queue = NewBus.broadcast_queue
    /\ global_error = "NONE"
    /\ bus_alive = TRUE
    /\ born = 0
    /\ script = [c \in Coros |-> <<>>]
    /\ InitCoros

CallFrom(c, ops, max) ==
    /\ ncalls < max
    /\ c <= born + 1
    /\ \E op \in ops : Start(c, op)
    /\ ncalls' = ncalls + 1
    /\ born' = IF c > born THEN c ELSE born
    /\ UNCHANGED <<script, out, rets, overtaken>>

Call(c) == CallFrom(c, Ops, MaxCalls)

Wake(c) == Retry(c) /\ UNCHANGED <<ncalls, born, script, out, rets, overtaken>>

Yielded(c) == Resume(c) /\ UNCHANGED <<ncalls, born, script, out, rets, overtaken>>

Next == \E c \in Coros : Call(c) \/ Wake(c) \/ Yielded(c)

Spec == Init /\ [][Next]_vars

\* The blocking forms and the life cycle of channels and bus only, to a
\* greater depth: open, close, send, recv, broadcast and coro_bus_delete.
LifeOps ==
    {op \in Ops : op.kind \in {"open", "close", "send", "recv", "broadcast"}}
    \cup {Op("delete", 0, <<>>, 0)}

LifeCall(c) == CallFrom(c, LifeOps, MaxLifeCalls)

DeleteYielded(c) == ResumeDelete(c) /\ UNCHANGED <<ncalls, born, script, out, rets, overtaken>>

LifeNext == \E c \in Coros : LifeCall(c) \/ Wake(c) \/ Yielded(c) \/ DeleteYielded(c)

LifeSpec == Init /\ [][LifeNext]_vars

\* ------------------------------------------------- one sender, one receiver
\* Coroutine 1 sends the values vs in order with coro_bus_send, coroutine 2
\* calls coro_bus_recv Len(vs) times, on a channel of capacity cap that is
\* never closed.  Each coroutine records what its calls return.
Sender == CHOOSE c \in Coros : \A x \in Coros : c <= x
Receiver == Sender + 1

PPInit ==
    /\ \E cap \in 1..MaxCap, n \in 1..MaxScript :
         \E vs \in [1..n -> Data] :
            /\ channels = coro_bus_channel_open(
                              [channels |-> NewBus.channels,
                               broadcast_queue |-> NewBus.broadcast_queue,
                               global_error |-> "NONE"], cap).channels
            /\ script = [c \in Coros |->
                           IF c = Sender
                           THEN [i \in 1..n |-> Op("send", 0, <<vs[i]>>, 1)]
                           ELSE IF c = Receiver
                           THEN [i \in 1..n |-> Op("recv", 0, <<>>, 0)]
                           ELSE <<>>]
    /\ broadcast_queue = NewBus.broadcast_queue
    /\ global_error = "NONE"
    /\ bus_alive = TRUE
    /\ born = NCoro
    /\ InitCoros

\* The caller's side of a scripted call that has just returned.
Record(c) ==
    /\ rets' = IF last'.outcome = "return"
               THEN [rets EXCEPT ![c] = Append(@, last'.ret)] ELSE rets
    /\ out' = IF last'.outcome = "return" /\ last'.ret = 0 /\ last'.op.kind = "recv"
              THEN [out EXCEPT ![c] = @ \o last'.data] ELSE out
    /\ UNCHANGED <<ncalls, born, script, overtaken>>

ScriptCall(c) ==
    /\ pc[c] = "ready"
    /\ Len(rets[c]) < Len(script[c])
    /\ Start(c, script[c][Len(rets[c]) + 1])
    /\ Record(c)

ScriptWake(c) == Retry(c) /\ Record(c)

PPStep(c) == ScriptCall(c) \/ ScriptWake(c)

PPNext == \E c \in Coros : PPStep(c)

PPSpec == PPInit /\ [][PPNext]_vars

\* The scheduler does not stop while a coroutine is runnable.  (A scheduler
\* that eventually runs every runnable coroutine is such a scheduler.)
PPFairSpec == PPSpec /\ WF_vars(PPNext)

Sent == [i \in 1..Len(script[Sender]) |-> script[Sender][i].data[1]]

PPDone ==
    /\ rets[Sender] = [i \in 1..Len(script[Sender]) |-> 0]
    /\ rets[Receiver] = [i \in 1..Len(script[Receiver]) |-> 0]

\* -------------------------------------------------- traffic on one channel
\* The state after coro_bus_new() and the opening of one channel of any
\* capacity; the coroutines then send, receive and broadcast on it in every
\* form, the vectorised forms with count or capacity >= 1, and open or
\* close nothing.
FlowInit ==
    /\ \E cap \in Caps :
          channels = coro_bus_channel_open(
                         [channels |-> NewBus.channels,
                          broadcast_queue |-> NewBus.broadcast_queue,
                          global_error |-> "NONE"], cap).channels
    /\ broadcast_queue = NewBus.broadcast_queue
    /\ global_error = "NONE"
    /\ bus_alive = TRUE
    /\ born = 0
    /\ script = [c \in Coros |-> <<>>]
    /\ InitCoros

FlowOps ==
    {op \in Ops : /\ op.kind \in TryKinds \cup BlockingKinds
                  /\ op.d = 0
                  /\ op.kind \in {"try_send_v", "send_v", "try_recv_v", "recv_v"}
                         => op.n >= 1}

FlowCall(c) == CallFrom(c, FlowOps, MaxFlowCalls)

FlowNext == \E c \in Coros : FlowCall(c) \/ Wake(c)

FlowSpec == FlowInit /\ [][FlowNext]_vars

\* ------------------------------------------- several senders, one receiver
\* The coroutines other than Receiver issue blocking sends on a channel of
\* capacity cap, MaxSends in all; the k-th send issued carries the value k.
\* Receiver calls coro_bus_recv up to MaxSends times.
EarlierWoken(c, v) ==
    \E x \in Coros \ {c} :
        pc[x] = "woken" /\ cur[x].kind = "send" /\ cur[x].data[1] < v

BPInit ==
    /\ \E cap \in 1..MaxCap :
          channels = coro_bus_channel_open(
                         [channels |-> NewBus.channels,
                          broadcast_queue |-> NewBus.broadcast_queue,
                          global_error |-> "NONE"], cap).channels
    /\ script = [c \in Coros |-> <<>>]
    /\ broadcast_queue = NewBus.broadcast_queue
    /\ global_error = "NONE"
    /\ bus_alive = TRUE
    /\ born = NCoro
    /\ InitCoros

BPRecord(c) ==
    /\ rets' = IF last'.outcome = "return"
               THEN [rets EXCEPT ![c] = Append(@, last'.ret)] ELSE rets
    /\ out' = IF last'.outcome = "return" /\ last'.ret = 0 /\ last'.op.kind = "recv"
              THEN [out EXCEPT ![c] = @ \o last'.data] ELSE out
    /\ UNCHANGED <<born, script>>

BPSend(c) ==
    /\ c # Receiver
    /\ ncalls < MaxSends
    /\ Start(c, Op("send", 0, <<ncalls + 1>>, 1))
    /\ ncalls' = ncalls + 1
    /\ overtaken' = (overtaken \/ EarlierWoken(c, ncalls + 1))
    /\ BPRecord(c)

BPRecv(c) ==
    /\ c = Receiver
    /\ Len(rets[c]) < MaxSends
    /\ Start(c, Op("recv", 0, <<>>, 0))
    /\ BPRecord(c)
    /\ UNCHANGED <<ncalls, overtaken>>

BPWake(c) ==
    /\ Retry(c)
    /\ overtaken' = (overtaken \/ (cur[c].kind = "send"
                                      /\ EarlierWoken(c, cur[c].data[1])))
    /\ BPRecord(c)
    /\ UNCHANGED ncalls

BPNext == \E c \in Coros : BPSend(c) \/ BPRecv(c) \/ BPWake(c)

BackpressureSpec == BPInit /\ [][BPNext]_vars

\* The values of the sends that have been issued and have not returned.
PendingSends ==
    {cur[c].data[1] : c \in {x \in Coros : cur[x].kind = "send"}}

\* ------------------------------------------------------------------ claims

\* C1: in every reachable state every open channel holds at least 0 and at
\* most size_limit messages.
CapacityBound ==
    \A i \in 1..Len(channels) :
        channels[i] # NULL =>
            /\ Len(channels[i][1].messages) >= 0
            /\ Len(channels[i][1].messages) <= channels[i][1].size_limit

\* A channel of capacity >= 2 is full and the last step was a send, a
\* broadcast or a vectorised send that found it so.
CapacityBoundWitness ==
    /\ last.op.kind \in {"try_send", "send", "try_broadcast", "broadcast",
                         "try_send_v", "send_v"}
    /\ global_error = "WOULD_BLOCK"
    /\ last.ret = -1
    /\ \E i \in 1..Len(channels) :
          /\ channels[i] # NULL
          /\ channels[i][1].size_limit >= 2
          /\ Len(channels[i][1].messages) = channels[i][1].size_limit

\* C2: with one sender and one receiver on one channel, what the receiver
\* has obtained is at every moment the first values sent, in the order sent,
\* and once it has made all its calls it has obtained exactly the values sent.
FifoDelivery ==
    /\ Len(out[Receiver]) <= Len(Sent)
    /\ \A i \in 1..Len(out[Receiver]) : out[Receiver][i] = Sent[i]
    /\ Len(rets[Receiver]) = Len(script[Receiver]) => out[Receiver] = Sent

\* The receiver has obtained three values, not all the same, through a
\* channel that held two of them at once or made the sender wait.
FifoDeliveryWitness ==
    /\ Len(out[Receiver]) = 3
    /\ out[Receiver][1] # out[Receiver][2]
    /\ PPDone

\* C3: under a fair scheduler both coroutines finish with every call returning
\* 0, and a suspended coroutine does not stay suspended.
PingPongTerminates ==
    <>[](PPDone /\ \A c \in Coros : pc[c] # "suspended")

\* Both have finished, at least two values went through a channel of
\* capacity 1, and the last call to return had been suspended and woken.
PingPongWitness ==
    /\ PPDone
    /\ Len(script[Sender]) >= 2
    /\ channels[1][1].size_limit = 1
    /\ last.retry

\* What a step that is a try_broadcast does to the bus.
TryBroadcastStep ==
    last'.op.kind = "try_broadcast" =>
        IF last'.ret = 0
        THEN /\ \E i \in 1..Len(channels) : channels[i] # NULL
             /\ Len(channels') = Len(channels)
             /\ \A i \in 1..Len(channels) :
                   IF channels[i] = NULL
                   THEN channels'[i] = NULL
                   ELSE /\ channels'[i] # NULL
                        /\ channels'[i][1].messages =
                               Append(channels[i][1].messages, last'.op.data[1])
                        /\ channels'[i][1].size_limit = channels[i][1].size_limit
                        /\ channels'[i][1].send_queue = channels[i][1].send_queue
                        /\ channels'[i][1].recv_queue =
                               IF channels[i][1].recv_queue = <<>> THEN <<>>
                               ELSE Tail(channels[i][1].recv_queue)
             /\ broadcast_queue' = broadcast_queue
        ELSE /\ last'.ret = -1
             /\ channels' = channels
             /\ broadcast_queue' = broadcast_queue
             /\ last'.woke = <<>>
             /\ \/ \E i \in 1..Len(channels) :
                      /\ channels[i] # NULL
                      /\ Len(channels[i][1].messages) >= channels[i][1].size_limit
                \/ \A i \in 1..Len(channels) : channels[i] = NULL

\* C4: a try_broadcast that returns 0 has appended its value once to the
\* tail of every channel open at the call, woken at most the first receiver
\* of each and changed nothing else; one that returns -1 found a full channel
\* or no open channel and changed no message queue and no waiter queue.
TryBroadcastAtomic == [][TryBroadcastStep]_vars

\* A try_broadcast has just failed on a table with a full channel and,
\* at a higher index or a lower one, a channel with free space.
TryBroadcastWitness ==
    /\ last.op.kind = "try_broadcast"
    /\ last.ret = -1
    /\ global_error = "WOULD_BLOCK"
    /\ \E i, j \in 1..Len(channels) :
          /\ channels[i] # NULL /\ channels[j] # NULL
          /\ i < j
          /\ have_free_space(channels[i][1])
          /\ ~have_free_space(channels[j][1])

\* C5: a coroutine that was suspended in a waiter queue of a channel when
\* the channel was closed returns -1 with NO_CHANNEL from its blocking call
\* on its next turn, without enqueueing, dequeueing or suspending again.
ClosedWaiterGetsNoChannel ==
    (last.closed /\ last.op.kind \in BlockingKinds) =>
        /\ last.outcome = "return"
        /\ last.ret = -1
        /\ global_error = "NO_CHANNEL"

EmptySlots(chs) == {d \in 0..(Len(chs) - 1) : chs[d + 1] = NULL}
MinOf(S) == CHOOSE x \in S : \A y \in S : x <= y
MaxOf(S) == CHOOSE x \in S : \A y \in S : x >= y

DeleteClosesAll ==
    ~bus_alive =>
        /\ \A i \in 1..Len(channels) : channels[i] = NULL
        /\ \A c \in Coros :
              pc[c] = "suspended" => cur[c].kind = "broadcast"

\* Whoever a step wakes had nobody enqueued before it in its queue, except
\* coroutines woken earlier in the same step.
WakeOrderStep ==
    \A i \in 1..Len(last'.woke) :
        \A a \in Coros :
            <<a, last'.woke[i]>> \in before =>
                \E j \in 1..(i - 1) : last'.woke[j] = a

\* C8: the bus issues the wake-ups of one waiter queue (send, recv or
\* broadcast; wake-one or the wake-all of close) in the order in which the
\* coroutines were enqueued.
WakeOrder == [][WakeOrderStep]_vars

\* One coroutine has just been woken from a queue in which another, enqueued
\* after it, is still waiting; or a close has woken two waiters of one queue.
WakeOrderWitness ==
    \/ /\ Len(last.woke) = 1
       /\ last.op.kind \in {"send", "recv"}
       /\ \E c \in Coros : pc[c] = "suspended" /\ cur[c] = cur[last.woke[1]]
    \/ /\ Len(last.woke) >= 2
       /\ cur[last.woke[1]].kind = cur[last.woke[2]].kind

\* A channel_close on a negative, out-of-range or empty-slot descriptor
\* changes nothing and wakes nobody.
CloseNoopStep ==
    (last'.op.kind = "close" /\ ~last'.retry
         /\ get_chanel_from(channels, last'.op.d) = NULL) =>
        /\ channels' = channels
        /\ broadcast_queue' = broadcast_queue
        /\ last'.woke = <<>>
        /\ \A c \in Coros : c # last'.coro => pc'[c] = pc[c]

\* In the current state, closing any descriptor twice in a row does to the
\* bus what closing it once does.
CloseTwice ==
    \A d \in Descs :
        LET once == coro_bus_channel_close(Bus, d)
            twice == coro_bus_channel_close(once, d)
        IN  /\ twice.channels = once.channels
            /\ twice.broadcast_queue = once.broadcast_queue
            /\ twice.global_error = once.global_error
            /\ twice.woke = <<>>

\* C9: channel_close on a negative, out-of-range or empty-slot descriptor
\* changes no channel, no waiter queue and no table slot and wakes nobody;
\* and in every state, closing a descriptor a second time right after closing
\* it changes nothing more and wakes nobody.
CloseIdempotent == []CloseTwice /\ [][CloseNoopStep]_vars

\* A channel_close has just returned at once, on the descriptor of an empty
\* slot of the table, while a coroutine waits in the broadcast queue.
CloseIdempotentWitness ==
    /\ last.op.kind = "close"
    /\ ~last.retry
    /\ last.outcome = "return"
    /\ last.op.d >= 0
    /\ last.op.d < Len(channels)
    /\ broadcast_queue # <<>>

\* C10: a blocking form that returns -1 leaves NO_CHANNEL as the last error
\* (WOULD_BLOCK does not come out of it), and NOT_IMPLEMENTED is never set.
BlockingErrors ==
    /\ (last.op.kind \in BlockingKinds /\ last.outcome = "return") =>
           \/ last.ret >= 0
           \/ last.ret = -1 /\ global_error = "NO_CHANNEL"
    /\ (last.op.kind \in BlockingKinds /\ global_error = "WOULD_BLOCK"
            /\ last.ret < 0) => last.outcome = "suspend"
    /\ global_error # "NOT_IMPLEMENTED"

\* A blocking call that had been suspended has just returned -1: its channel
\* was closed under it.
BlockingErrorsWitness ==
    /\ last.op.kind \in BlockingKinds
    /\ last.retry
    /\ last.outcome = "return"
    /\ last.ret = -1

MinOf2(a, b) == IF a <= b THEN a ELSE b

RECURSIVE SuccessiveTrySend(_, _, _, _, _)
\* coro_bus_try_send called with data[i + 1], ..., data[k] one after the
\* other: the bus after the calls, whom they woke, whether each returned 0.
SuccessiveTrySend(b, channel, data, i, k) ==
    IF i >= k
    THEN [bus |-> b, woke |-> <<>>, ok |-> TRUE]
    ELSE LET t == coro_bus_try_send(b, channel, data[i + 1])
             rest == SuccessiveTrySend(t, channel, data, i + 1, k)
         IN  [bus |-> rest.bus, woke |-> t.woke \o rest.woke,
              ok |-> t.ret = 0 /\ rest.ok]

RECURSIVE SuccessiveTryRecv(_, _, _, _)
\* coro_bus_try_recv called k - i times one after the other.
SuccessiveTryRecv(b, channel, i, k) ==
    IF i >= k
    THEN [bus |-> b, woke |-> <<>>, data |-> <<>>, ok |-> TRUE]
    ELSE LET t == coro_bus_try_recv(b, channel)
             rest == SuccessiveTryRecv(t, channel, i + 1, k)
         IN  [bus |-> rest.bus, woke |-> t.woke \o rest.woke,
              data |-> t.data \o rest.data, ok |-> t.ret = 0 /\ rest.ok]

\* A step that is a try_send_v with count >= 1 on an open channel.
TrySendVStep ==
    LET op == last'.op
        slot == get_chanel_from(channels, op.d)
    IN  (op.kind = "try_send_v" /\ slot # NULL /\ op.n >= 1) =>
            LET f == slot[1].size_limit - Len(slot[1].messages)
                k == MinOf2(op.n, f)
                s == SuccessiveTrySend(Bus, op.d, op.data, 0, k)
            IN  IF k >= 1
                THEN /\ last'.ret = k
                     /\ s.ok
                     /\ channels' = s.bus.channels
                     /\ broadcast_queue' = s.bus.broadcast_queue
                     /\ last'.woke = s.woke
                     /\ global_error' = s.bus.global_error
                     /\ get_chanel_from(channels', op.d)[1].messages =
                            slot[1].messages \o SubSeq(op.data, 1, k)
                ELSE /\ last'.ret = -1
                     /\ global_error' = "WOULD_BLOCK"
                     /\ channels' = channels
                     /\ broadcast_queue' = broadcast_queue
                     /\ last'.woke = <<>>

\* A step that is a try_recv_v with capacity >= 1 on an open channel.
TryRecvVStep ==
    LET op == last'.op
        slot == get_chanel_from(channels, op.d)
    IN  (op.kind = "try_recv_v" /\ slot # NULL /\ op.n >= 1) =>
            LET k == MinOf2(op.n, Len(slot[1].messages))
                s == SuccessiveTryRecv(Bus, op.d, 0, k)
            IN  IF k >= 1
                THEN /\ last'.ret = k
                     /\ s.ok
                     /\ channels' = s.bus.channels
                     /\ broadcast_queue' = s.bus.broadcast_queue
                     /\ last'.woke = s.woke
                     /\ last'.data = s.data
                     /\ last'.data = SubSeq(slot[1].messages, 1, k)
                     /\ global_error' = s.bus.global_error
                ELSE /\ last'.ret = -1
                     /\ global_error' = "WOULD_BLOCK"
                     /\ channels' = channels
                     /\ broadcast_queue' = broadcast_queue
                     /\ last'.woke = <<>>

\* C11: on an open channel with f free slots, try_send_v with count >= 1
\* pushes the first k = min(count, f) values in order and returns k when
\* k >= 1, else returns -1 with WOULD_BLOCK; the bus after it (messages,
\* waiter queues, woken coroutines) is the bus after k successful try_send
\* calls with those values.  try_recv_v with capacity >= 1 is in the same way
\* k = min(capacity, len) try_recv calls.
VectorisedEquivalence == [][TrySendVStep /\ TryRecvVStep]_vars

\* A try_send_v of two values has just pushed only the first of them, into a
\* channel with one free slot, and woken a waiting receiver.
VectorisedWitness ==
    /\ last.op.kind = "try_send_v"
    /\ last.op.n = 2
    /\ last.ret = 1
    /\ Len(last.woke) = 1

\* The sends that have not returned are the last ones issued, and the
\* receiver has read the values in the order the sends were issued.
InArrivalOrder ==
    /\ \A v \in PendingSends : v > ncalls - Cardinality(PendingSends)
    /\ \A i \in 1..Len(out[Receiver]) : out[Receiver][i] = i

\* C12 as claimed: blocking sends on one channel return 0 in the order in
\* which they were issued and the receiver reads their values in that
\* order, whatever the scheduler does with woken and newly arriving senders.
SendersCompleteInArrivalOrder == InArrivalOrder

\* C12 as amended: the same, as long as no send has been attempted (first
\* attempt or retry) while an earlier-issued send, woken by a pop, had not
\* run yet.
SendersCompleteInOrderUnlessOvertaken == ~overtaken => InArrivalOrder

\* Three sends have returned 0 and their values have been read, one of them
\* after waiting in the send queue behind another waiting sender, and no
\* woken sender was ever overtaken.
SendersWitness ==
    /\ ~overtaken
    /\ Len(out[Receiver]) >= 3
    /\ PendingSends = {}
    /\ last.retry
    /\ last.coro # Receiver

\* Whom one push into chan wakes: the first waiting receiver, if any.
PushWakes(chan) ==
    IF chan.recv_queue = <<>> THEN <<>> ELSE <<Head(chan.recv_queue)>>

RECURSIVE PopWakes(_, _, _)
\* Whom k pops in a row wake, the send queue being sq and the broadcast
\* queue bq: each the first waiting sender, or else the first waiting
\* broadcaster, or else nobody.
PopWakes(sq, bq, k) ==
    IF k = 0 THEN <<>>
    ELSE IF sq # <<>> THEN <<Head(sq)>> \o PopWakes(Tail(sq), bq, k - 1)
    ELSE IF bq # <<>> THEN <<Head(bq)>> \o PopWakes(sq, Tail(bq), k - 1)
    ELSE <<>>

\* The wake-ups woke of a call op that ended with ret and outcome, made on
\* the bus b, are those of its pushes and pops and no others.
WakeRule(b, op, woke, ret, outcome) ==
    LET slot == get_chanel_from(b.channels, op.d)
        open == {i \in 1..Len(b.channels) : b.channels[i] # NULL}
        waited == {i \in open : b.channels[i][1].recv_queue # <<>>}
    IN  CASE op.kind \in {"try_send", "send"} /\ outcome = "return" /\ ret = 0 ->
                 /\ woke = PushWakes(slot[1])
                 /\ \A i \in 1..Len(woke) : cur[woke[i]].kind \in {"recv", "recv_v"}
          [] op.kind \in {"try_send_v", "send_v"} /\ outcome = "return" /\ ret > 0 ->
                 /\ woke = SubSeq(slot[1].recv_queue, 1,
                                  MinOf2(ret, Len(slot[1].recv_queue)))
                 /\ \A i \in 1..Len(woke) : cur[woke[i]].kind \in {"recv", "recv_v"}
          [] op.kind \in {"try_broadcast", "broadcast"} /\ outcome = "return" /\ ret = 0 ->
                 /\ Len(woke) = Cardinality(waited)
                 /\ Range(woke) = {Head(b.channels[i][1].recv_queue) : i \in waited}
                 /\ \A i \in 1..Len(woke) : cur[woke[i]].kind \in {"recv", "recv_v"}
          [] op.kind \in {"try_recv", "recv"} /\ outcome = "return" /\ ret = 0 ->
                 /\ woke = PopWakes(slot[1].send_queue, b.broadcast_queue, 1)
                 /\ Len(woke) <= 1
                 /\ \A i \in 1..Len(woke) :
                       IF slot[1].send_queue = <<>>
                       THEN cur[woke[i]].kind = "broadcast"
                       ELSE cur[woke[i]].kind \in {"send", "send_v"}
          [] op.kind \in {"try_recv_v", "recv_v"} /\ outcome = "return" /\ ret > 0 ->
                 /\ woke = PopWakes(slot[1].send_queue, b.broadcast_queue, ret)
                 /\ Len(woke) <= ret
          [] op.kind \in TryKinds \cup BlockingKinds /\ (outcome # "return" \/ ret < 0) ->
                 woke = <<>>
          [] OTHER -> TRUE

\* In the current state, whichever try-form is called wakes by the rule.
WakeRuleHere ==
    \A op \in {o \in Ops : o.kind \in TryKinds} :
        LET r == Exec(Bus, Sender, op)
        IN  WakeRule(Bus, op, r.woke, r.ret, r.outcome)

\* The step taken wakes by the rule.
WakeRuleStep ==
    WakeRule(Bus, last'.op, last'.woke, last'.ret, last'.outcome)

Waiting(b) ==
    Range(b.broadcast_queue)
    \cup UNION {Range(b.channels[i][1].send_queue) \cup Range(b.channels[i][1].recv_queue) :
                   i \in {j \in 1..Len(b.channels) : b.channels[j] # NULL}}

\* What a step that is a try-form does: it returns, its caller is in no
\* queue, and when it returns -1 the bus is as before, nobody is woken and
\* the error code tells why.
TryFormStep ==
    LET op == last'.op
        slot == get_chanel_from(channels, op.d)
        open == {i \in 1..Len(channels) : channels[i] # NULL}
        failed == last'.ret = -1
        blocked ==
            CASE op.kind \in {"try_send", "try_send_v"} ->
                     slot # NULL /\ Len(slot[1].messages) >= slot[1].size_limit
              [] op.kind \in {"try_recv", "try_recv_v"} ->
                     slot # NULL /\ slot[1].messages = <<>>
              [] op.kind = "try_broadcast" ->
                     \E i \in open : Len(channels[i][1].messages) >= channels[i][1].size_limit
        absent == IF op.kind = "try_broadcast" THEN open = {} ELSE slot = NULL
    IN  op.kind \in TryKinds =>
            /\ last'.outcome = "return"
            /\ pc'[last'.coro] = "ready"
            /\ last'.coro \notin Waiting([channels |-> channels',
                                          broadcast_queue |-> broadcast_queue'])
            /\ failed => /\ channels' = channels
                         /\ broadcast_queue' = broadcast_queue
                         /\ last'.woke = <<>>
                         /\ \A c \in Coros \ {last'.coro} : pc'[c] = pc[c]
                         /\ global_error' \in {"NO_CHANNEL", "WOULD_BLOCK"}
            /\ (failed /\ global_error' = "NO_CHANNEL") <=> absent
            /\ (failed /\ global_error' = "WOULD_BLOCK") <=> (~absent /\ blocked)

\* C14: a try-form never suspends or enqueues its caller; when it returns
\* -1 the channel table, the message queues and the waiter queues are as
\* before and nobody is woken; it fails with NO_CHANNEL exactly when the
\* descriptor is negative, out of range or names an empty slot (for
\* try_broadcast: no channel is open), and with WOULD_BLOCK exactly when
\* the channel exists and is full (send) or empty (recv).
FailingTryFormsFrame == [][TryFormStep]_vars

\* C15: whenever a coroutine has just been appended to a channel's send
\* queue (by send or send_v, with any count) the channel holds exactly
\* size_limit messages, and whenever one has just been appended to a
\* channel's recv queue (by recv or recv_v, with any capacity) the channel
\* holds no message.
ParkedForTheStatedReason ==
    LET slot == get_chanel_from(channels, last.op.d)
    IN  last.outcome = "suspend" =>
            /\ last.op.kind \in {"send", "send_v"} =>
                   /\ slot # NULL
                   /\ last.coro \in Range(slot[1].send_queue)
                   /\ Len(slot[1].messages) = slot[1].size_limit
            /\ last.op.kind \in {"recv", "recv_v"} =>
                   /\ slot # NULL
                   /\ last.coro \in Range(slot[1].recv_queue)
                   /\ slot[1].messages = <<>>

\* C16: a try_send_v with count 0 on an open channel, full or not, pushes
\* nothing and does not come back as a would-block failure (-1 with
\* WOULD_BLOCK as the last error).
TrySendVOfNothing ==
    LET slot == get_chanel_from(channels, last.op.d)
    IN  (last.op.kind = "try_send_v" /\ last.op.n = 0 /\ slot # NULL) =>
            ~(last.ret = -1 /\ global_error = "WOULD_BLOCK")

\* What a step that is a channel_open does.
OpenStep ==
    LET d == last'.ret
        empty == EmptySlots(channels)
    IN  last'.op.kind = "open" =>
            /\ last'.outcome = "return"
            /\ d >= 0
            /\ IF empty # {}
               THEN Len(channels') = Len(channels) /\ d \in empty
               ELSE Len(channels') = Len(channels) + 1 /\ d = Len(channels)
            /\ channels'[d + 1] # NULL
            /\ channels'[d + 1][1].size_limit = last'.op.n
            /\ channels'[d + 1][1].messages = <<>>
            /\ channels'[d + 1][1].send_queue = <<>>
            /\ channels'[d + 1][1].recv_queue = <<>>
            /\ \A i \in 1..Len(channels) : i # d + 1 => channels'[i] = channels[i]
            /\ broadcast_queue' = broadcast_queue
            /\ global_error' = global_error
            /\ last'.woke = <<>>
            /\ \A c \in Coros \ {last'.coro} : pc'[c] = pc[c]

\* C17: channel_open puts the new channel in a slot that was empty when the
\* table has one, and does not grow the table then; it grows the table by
\* exactly one slot when every slot is occupied; the descriptor it returns
\* is non-negative and names a channel of the given capacity with no
\* message and no waiter; every other slot and the broadcast queue are as
\* before; and no step of any operation makes the table shorter.
OpenReusesAndFrames == [][OpenStep /\ Len(channels') >= Len(channels)]_vars

\* A channel_open has just reused slot 0 of a table whose slot 1 holds a
\* channel with a message or a waiter in it.
OpenReusesWitness ==
    /\ last.op.kind = "open"
    /\ last.ret = 0
    /\ Len(channels) >= 2
    /\ channels[2] # NULL
    /\ \/ channels[2][1].messages # <<>>
       \/ channels[2][1].send_queue # <<>>
       \/ channels[2][1].recv_queue # <<>>

\* No coroutine has been woken and not run yet.
Quiescent == \A c \in Coros : pc[c] # "woken"

\* C18: in every quiescent state in which a coroutine waits in the
\* broadcast queue, some channel is open and some open channel is full.
NoLostBroadcastWakeup ==
    (bus_alive /\ Quiescent /\ broadcast_queue # <<>>) =>
        \E i \in 1..Len(channels) :
            /\ channels[i] # NULL
            /\ ~have_free_space(channels[i][1])

\* C19: when the vectorised calls are made with count or capacity >= 1, in
\* every quiescent state a channel with a coroutine in its send queue is
\* full and a channel with a coroutine in its recv queue is empty.
NoLostWakeup ==
    Quiescent =>
        \A i \in 1..Len(channels) :
            channels[i] # NULL =>
                /\ channels[i][1].send_queue # <<>> =>
                       Len(channels[i][1].messages) = channels[i][1].size_limit
                /\ channels[i][1].recv_queue # <<>> =>
                       channels[i][1].messages = <<>>

\* A woken waiter has just run, found that another coroutine had been
\* there first, and gone back to the queue.
NoLostWakeupWitness ==
    /\ Quiescent
    /\ last.retry
    /\ last.outcome = "suspend"
    /\ last.op.kind \in {"send", "recv", "send_v", "recv_v"}
    /\ channels[1][1].size_limit >= 1

\* The waiter queues of the bus, each with the calls that enqueue into it
\* and the descriptor they are made on.
WaiterQueues ==
    {[queue |-> broadcast_queue, kinds |-> {"broadcast"}, d |-> 0]}
    \cup {[queue |-> channels[i][1].send_queue, kinds |-> {"send", "send_v"},
           d |-> i - 1] : i \in {j \in 1..Len(channels) : channels[j] # NULL}}
    \cup {[queue |-> channels[i][1].recv_queue, kinds |-> {"recv", "recv_v"},
           d |-> i - 1] : i \in {j \in 1..Len(channels) : channels[j] # NULL}}

\* Every handle is in at most one place of one queue, and belongs to a
\* coroutine suspended in a blocking call that enqueues into that queue.
QueuesWellFormed ==
    /\ \A w \in WaiterQueues :
          /\ \A k1, k2 \in 1..Len(w.queue) : w.queue[k1] = w.queue[k2] => k1 = k2
          /\ \A k \in 1..Len(w.queue) :
                /\ pc[w.queue[k]] = "suspended"
                /\ cur[w.queue[k]].kind \in w.kinds
                /\ cur[w.queue[k]].kind # "broadcast" => cur[w.queue[k]].d = w.d
    /\ \A w1, w2 \in WaiterQueues :
          w1 # w2 => Range(w1.queue) \cap Range(w2.queue) = {}

\* Whoever a step wakes was suspended.
WakesTheSuspended ==
    \A i \in 1..Len(last'.woke) : pc[last'.woke[i]] = "suspended"

\* C20: in every reachable state each coroutine handle occurs at most once
\* in all the waiter queues of the bus, every handle in a queue belongs to a
\* coroutine that is suspended inside a blocking call (never to a running,
\* runnable or returned one), and every wake-up is of a suspended coroutine.
WaiterQueuesWellFormed == []QueuesWellFormed /\ [][WakesTheSuspended]_vars

\* A push or pop has just woken the first coroutine of a queue in which
\* another still waits.
WaiterQueuesWitness ==
    /\ Len(last.woke) = 1
    /\ pc[last.woke[1]] = "woken"
    /\ \E w \in WaiterQueues :
          /\ w.queue # <<>>
          /\ cur[last.woke[1]].kind \in w.kinds

\* The message queue of every slot of the table chs (none for an empty slot).
Messages(chs) ==
    [i \in 1..Len(chs) |-> IF chs[i] = NULL THEN <<>> ELSE chs[i][1].messages]

\* What one attempt of a blocking send, broadcast or recv (the first, or a
\* retry after coro_suspend) does to the message queues.
ExactlyOnceStep ==
    LET op == last'.op
        d == op.d
        done == last'.outcome = "return" /\ last'.ret = 0
        open == {i \in 1..Len(channels) : channels[i] # NULL}
        before_ == Messages(channels)
        after == Messages(channels')
    IN  /\ op.kind \in {"send", "broadcast", "recv"} =>
              /\ Len(channels') = Len(channels)
              /\ \A i \in 1..Len(channels) : (channels'[i] = NULL) <=> (channels[i] = NULL)
              /\ last'.outcome \in {"return", "suspend"}
              /\ last'.outcome = "return" => last'.ret \in {0, -1}
              /\ ~done => after = before_
        /\ (op.kind = "send" /\ done) =>
              /\ d + 1 \in open
              /\ after = [before_ EXCEPT ![d + 1] = Append(@, op.data[1])]
        /\ (op.kind = "broadcast" /\ done) =>
              /\ open # {}
              /\ after = [i \in 1..Len(channels) |->
                              IF i \in open THEN Append(before_[i], op.data[1])
                              ELSE before_[i]]
        /\ (op.kind = "recv" /\ done) =>
              /\ d + 1 \in open
              /\ before_[d + 1] # <<>>
              /\ last'.data = <<Head(before_[d + 1])>>
              /\ after = [before_ EXCEPT ![d + 1] = Tail(@)]
        /\ (op.kind = "recv" /\ ~done) => last'.data = <<>>

\* C21: every attempt of a blocking send or broadcast that does not end the
\* call with 0 (it suspends, or returns -1) appends nothing to any channel,
\* and the attempt that returns 0 appends the value exactly once, to the
\* send's channel, resp. to every channel open at that attempt: so a call
\* appends once if it returns 0 and nothing if it returns -1, however often
\* it was suspended and retried.  A recv that returns 0 returns the message
\* at the head of its channel and removes it, so that no other receiver
\* gets it; an attempt that does not return 0 returns no value.
ExactlyOnceEnqueue == [][ExactlyOnceStep]_vars

\* A broadcast that had been suspended on a full channel has just been
\* retried and has returned 0.
ExactlyOnceWitness ==
    /\ last.op.kind = "broadcast"
    /\ last.retry
    /\ last.outcome = "return"
    /\ last.ret = 0

=============================================================================
